---- MODULE Spec2Model ----
(***************************************************************************)
(* State-machine model of tools/build-webrtc.py: the command line entry    *)
(* point, setup(), sync() and build(), the sh()/mkdirp()/rmr() utilities,  *)
(* and the part of the file system they read and write (the source tree,   *)
(* the 'out' tree of per-target output directories and the per-platform    *)
(* build directory).  One behaviour is a series of invocations of the      *)
(* script with one command line, on the tree of the platform it selects.   *)
(***************************************************************************)
EXTENDS Integers, Sequences, FiniteSets, TLC

VARIABLES
    iosArchs,     \* the value of IOS_BUILD_ARCHS
    args,         \* argparse result: the command line of every invocation of the behaviour
    pc,           \* position of the interpreter
    idx,          \* index of the running for-loop
    running,      \* set of child processes spawned by sh() and not yet reaped
    log,          \* commands passed to sh() in this invocation, with their outcome
    exitStatus,   \* status of the process once pc = "exit"
    exitKind,     \* why the process exited
    cwd,          \* os.getcwd()
    depotTools,   \* <target>/depot_tools is a directory
    webrtcDir,    \* <target>/webrtc/<platform> is a directory
    srcDir,       \* <target>/webrtc/<platform>/src is a directory
    out,          \* the 'out' tree: <<gn_out_dir, entry>> -> content
    bdirExists,   \* <target>/build/<platform> is a directory
    bdir,         \* its entries: name -> content
    canonical,    \* simulators[0] once build() has computed it, <<>> before
    interrupts,   \* KeyboardInterrupts delivered so far
    reads,        \* paths of 'out' that build() itself has read in this invocation (history)
    start,        \* the build directory as it was when the invocation started (history)
    prev          \* the previous invocation, when it was a build that returned (history)

vars == <<iosArchs, args, pc, idx, running, log, exitStatus, exitKind,
          cwd, depotTools, webrtcDir, srcDir, out, bdirExists, bdir, canonical,
          interrupts, reads, start, prev>>

(***************************************************************************)
(* Bounds of the model                                                     *)
(***************************************************************************)
\* KeyboardInterrupts the user sends during one behaviour
MaxInterrupts == 1

\* non-zero statuses an external command returns in the model
ExitCodes == {1, 2}

(***************************************************************************)
(* Constants of the script                                                 *)
(***************************************************************************)
\* lines 13-18 with the ABI name of x86 written for x64 as well
ANDROID_CPU_ABI_MAP_Collision ==
    [cpu \in {"arm", "arm64", "x86", "x64"} |->
        CASE cpu = "arm"   -> "armeabi-v7a"
          [] cpu = "arm64" -> "arm64-v8a"
          [] cpu = "x86"   -> "x86"
          [] cpu = "x64"   -> "x86"]

ANDROID_CPU_ABI_MAP ==
    [cpu \in {"arm", "arm64", "x86", "x64"} |->
        CASE cpu = "arm"   -> "armeabi-v7a"
          [] cpu = "arm64" -> "arm64-v8a"
          [] cpu = "x86"   -> "x86"
          [] cpu = "x64"   -> "x86_64"]

ANDROID_BUILD_CPUS == <<"arm", "arm64", "x86", "x64">>

\* an entry 'tenv:arch' is the sequence of its tokens
IOS_BUILD_ARCHS ==
    << <<"device", ":", "arm64">>,
       <<"simulator", ":", "arm64">>,
       <<"simulator", ":", "x64">> >>

MACOS_BUILD_ARCHS == <<"x64">>

(***************************************************************************)
(* Python helpers                                                          *)
(***************************************************************************)
\* item.split(':')
Split(item) == SelectSeq(item, LAMBDA t : t # ":")

\* item.startswith(prefix), prefix a whole token
StartsWith(item, prefix) == Len(item) > 0 /\ item[1] = prefix

\* build_type = 'Debug' if debug else 'Release'
BuildType(debug) == IF debug THEN "Debug" ELSE "Release"

\* finite maps
Put(f, k, v) == [x \in DOMAIN f \cup {k} |-> IF x = k THEN v ELSE f[x]]

Del(f, ks) == [x \in DOMAIN f \ ks |-> f[x]]

EmptyMap == [x \in {} |-> x]

SeqToSet(s) == {s[i] : i \in 1..Len(s)}

(***************************************************************************)
(* Files                                                                   *)
(***************************************************************************)
\* a path is <<directory, entry>>; the build directory build_dir is
BUILD_DIR == "build_dir"

\* what is known of a file or of the binary of a framework
File(kind, slices, bitcode) == [kind |-> kind, slices |-> slices, bitcode |-> bitcode]

\* an entry of the build directory: a bundle, an archive or a staging tree,
\* with the files it holds
Entry(kind, items) == [kind |-> kind, items |-> items]

\* the *.jar glob of line 291, expanded by the shell in build_dir
JarGlob(d) == {n \in DOMAIN d : n \in {"libwebrtc.jar", "libjingle_peerconnection.so.jar"}}

(***************************************************************************)
(* Output directory names: every place of build() formats its own          *)
(***************************************************************************)
\* line 189, generate phase, iOS
GenOutDirIos(build_type, tenv, arch) == "out/" \o build_type \o "-ios-" \o tenv \o "-" \o arch

\* line 194, generate phase, macOS
GenOutDirMacos(build_type, arch) == "out/" \o build_type \o "-macos-" \o arch

\* line 200, generate phase, Android
GenOutDirAndroid(build_type, cpu) == "out/" \o build_type \o "-" \o cpu

\* line 209 with a format that differs from the one of line 189
NinjaOutDirIos_OtherFormat(build_type, tenv, arch) ==
    "out/" \o build_type \o "-" \o tenv \o "-" \o arch

\* line 209, compile phase, iOS
NinjaOutDirIos(build_type, tenv, arch) == "out/" \o build_type \o "-ios-" \o tenv \o "-" \o arch

\* line 213, compile phase, macOS
NinjaOutDirMacos(build_type, arch) == "out/" \o build_type \o "-macos-" \o arch

\* line 218, compile phase, Android
NinjaOutDirAndroid(build_type, cpu) == "out/" \o build_type \o "-" \o cpu

\* line 231, directory of the canonical simulator
FatOutDir(build_type, tenv, arch) == "out/" \o build_type \o "-ios-" \o tenv \o "-" \o arch

\* line 237, directory of a simulator slice
SliceOutDir(build_type, tenv, arch) == "out/" \o build_type \o "-ios-" \o tenv \o "-" \o arch

\* lines 255 and 269, directory of a framework of the bundle, iOS
BundleOutDirIos(build_type, tenv, arch) == "out/" \o build_type \o "-ios-" \o tenv \o "-" \o arch

\* lines 258 and 274, directory of a framework of the bundle, macOS
BundleOutDirMacos(build_type, arch) == "out/" \o build_type \o "-macos-" \o arch

\* line 280, directory libwebrtc.jar is taken from
JarOutDir(build_type, cpu) == "out/" \o build_type \o "-" \o cpu

\* line 286, directory a native library is taken from
LibOutDir(build_type, cpu) == "out/" \o build_type \o "-" \o cpu

(***************************************************************************)
(* The argument tables of gn.  A flag 'key=value' is kept as its key, its  *)
(* value and whether the value is written in double quotes; a value of     *)
(* "%s" is a conversion of the % operator.  The string build_gn_args       *)
(* returns is kept as the list of the words between --args=' and '.        *)
(***************************************************************************)
Flag(key, value, quoted) == [key |-> key, value |-> value, quoted |-> quoted]

\* lines 37-45
GN_COMMON_ARGS ==
    << Flag("treat_warnings_as_errors", "false", FALSE),
       Flag("is_component_build", "false", FALSE),
       Flag("rtc_libvpx_build_vp9", "true", FALSE),
       Flag("is_debug", "%s", FALSE),
       Flag("target_cpu", "%s", TRUE) >>

\* lines 47-50
_GN_APPLE_COMMON ==
    << Flag("enable_dsyms", "true", FALSE),
       Flag("rtc_include_tests", "false", FALSE) >>

\* lines 52-59
_GN_IOS_ARGS ==
    << Flag("enable_ios_bitcode", "true", FALSE),
       Flag("ios_deployment_target", "11.0", TRUE),
       Flag("ios_enable_code_signing", "false", FALSE),
       Flag("target_os", "ios", TRUE),
       Flag("use_xcode_clang", "true", FALSE),
       Flag("target_environment", "%s", TRUE) >>

\* lines 62-65
_GN_MACOS_ARGS ==
    << Flag("target_os", "mac", TRUE),
       Flag("use_xcode_clang", "false", FALSE) >>

\* lines 68-70
_GN_ANDROID_ARGS ==
    << Flag("target_os", "android", TRUE) >>

\* lines 34-35: ' '.join(GN_COMMON_ARGS + platform_args)
build_gn_args(platform_args) == GN_COMMON_ARGS \o platform_args

\* line 60
GN_IOS_ARGS == build_gn_args(_GN_APPLE_COMMON \o _GN_IOS_ARGS)

\* line 66 without the table of lines 47-50
GN_MACOS_ARGS_WithoutAppleCommon == build_gn_args(_GN_MACOS_ARGS)

\* line 66
GN_MACOS_ARGS == build_gn_args(_GN_APPLE_COMMON \o _GN_MACOS_ARGS)

\* line 71
GN_ANDROID_ARGS == build_gn_args(_GN_ANDROID_ARGS)

\* str(debug)
Str(b) == IF b THEN "True" ELSE "False"

\* line 190 without .lower()
Lower_Missing(s) == s

\* s.lower(), on the strings str() makes of a boolean
Lower(s) == CASE s = "True" -> "true" [] s = "False" -> "false" [] OTHER -> s

\* lines 190, 195, 201: template % values; the n-th conversion of the
\* template takes the n-th value
Percent(template, values) ==
    [i \in 1..Len(template) |->
        IF template[i].value = "%s"
        THEN Flag(template[i].key,
                  values[Cardinality({j \in 1..i : template[j].value = "%s"})],
                  template[i].quoted)
        ELSE template[i]]

\* the value gn takes for a key: the last assignment wins; "" when there is none
ValueOf(gn_args, key) ==
    LET at == {i \in 1..Len(gn_args) : gn_args[i].key = key}
    IN  IF at = {} THEN "" ELSE gn_args[CHOOSE i \in at : \A j \in at : j <= i].value

(***************************************************************************)
(* The environment                                                         *)
(***************************************************************************)
\* lines 113, 144, 170: the entries of PATH in os.environ
BasePath == <<"/usr/local/bin", "/usr/bin">>

\* line 326: os.path.abspath(os.path.join(args.dir, 'build_webrtc'))
TargetDir(dir) == "/" \o dir \o "/build_webrtc"

\* lines 107, 136, 162
DepotToolsDir(target_dir) == target_dir \o "/depot_tools"

\* lines 137, 163
WebrtcSrcDir(target_dir, platform) == target_dir \o "/webrtc/" \o platform \o "/src"

\* ':'.join(path_parts), as the entries of the joined PATH
Join(path_parts) ==
    LET RECURSIVE J(_)
        J(k) == IF k = 0 THEN <<>> ELSE J(k - 1) \o path_parts[k]
    IN  J(Len(path_parts))

\* line 114: the PATH of fetch and gclient sync in setup()
SetupPath(target_dir) == Join(<<BasePath, <<DepotToolsDir(target_dir)>> >>)

\* lines 145-152: the PATH of gclient sync -D in sync()
SyncPath(target_dir, platform) ==
    LET webrtc_dir == WebrtcSrcDir(target_dir, platform)
        android_sdk_root == webrtc_dir \o "/third_party/android_sdk/public"
        path_parts == << BasePath, <<DepotToolsDir(target_dir)>> >>
        android_parts == << <<android_sdk_root \o "/platform-tools">>,
                            <<android_sdk_root \o "/tools">>,
                            <<webrtc_dir \o "/build/android">> >>
    IN  Join(IF platform = "android" THEN path_parts \o android_parts ELSE path_parts)

\* lines 171-178 with the toolchain directory in front of the PATH
BuildPath_Prepended(target_dir, platform) ==
    LET webrtc_dir == WebrtcSrcDir(target_dir, platform)
        android_sdk_root == webrtc_dir \o "/third_party/android_sdk/public"
        path_parts == << <<DepotToolsDir(target_dir)>>, BasePath >>
        android_parts == << <<android_sdk_root \o "/platform-tools">>,
                            <<android_sdk_root \o "/tools">>,
                            <<webrtc_dir \o "/build/android">> >>
    IN  Join(IF platform = "android" THEN path_parts \o android_parts ELSE path_parts)

\* lines 171-178: the PATH of gn gen and ninja in build()
BuildPath(target_dir, platform) ==
    LET webrtc_dir == WebrtcSrcDir(target_dir, platform)
        android_sdk_root == webrtc_dir \o "/third_party/android_sdk/public"
        path_parts == << BasePath, <<DepotToolsDir(target_dir)>> >>
        android_parts == << <<android_sdk_root \o "/platform-tools">>,
                            <<android_sdk_root \o "/tools">>,
                            <<webrtc_dir \o "/build/android">> >>
    IN  Join(IF platform = "android" THEN path_parts \o android_parts ELSE path_parts)

(***************************************************************************)
(* External commands: the tool, the directory it works on (-C, cwd or the  *)
(* generated directory), the target_cpu and target_os it is given, the     *)
(* paths or targets it reads, the path it writes, the words of its --args  *)
(* and the PATH of its environment                                         *)
(***************************************************************************)
NoPath == <<"", "">>

\* a command run with env=None inherits the PATH of the script
Cmd(tool, dir, cpu, os, inputs, output) ==
    [tool |-> tool, dir |-> dir, cpu |-> cpu, os |-> os, inputs |-> inputs, output |-> output,
     gn_args |-> <<>>, path |-> BasePath]

\* sh(cmd, env)
WithEnv(c, path) == [c EXCEPT !.path = path]

\* 'gn gen %s %s' % (gn_out_dir, gn_args): gn reads the target from its arguments
GnCmd(gn_out_dir, gn_args) ==
    [Cmd("gn gen", gn_out_dir, ValueOf(gn_args, "target_cpu"), ValueOf(gn_args, "target_os"),
         <<>>, NoPath) EXCEPT !.gn_args = gn_args]

\* lines 186-203: the gn gen commands of the generate phase, in order
GnCommands(platform, debug, archs, env) ==
    LET build_type == BuildType(debug)
        ios == [i \in 1..Len(archs) |->
                   LET tenv == Split(archs[i])[1]
                       arch == Split(archs[i])[2]
                       gn_out_dir == GenOutDirIos(build_type, tenv, arch)
                       gn_args == Percent(GN_IOS_ARGS, <<Lower(Str(debug)), arch, tenv>>)
                   IN  WithEnv(GnCmd(gn_out_dir, gn_args), env)]
        macos == [i \in 1..Len(MACOS_BUILD_ARCHS) |->
                   LET arch == MACOS_BUILD_ARCHS[i]
                       gn_out_dir == GenOutDirMacos(build_type, arch)
                       gn_args == Percent(GN_MACOS_ARGS, <<Lower(Str(debug)), arch>>)
                   IN  WithEnv(GnCmd(gn_out_dir, gn_args), env)]
        android == [i \in 1..Len(ANDROID_BUILD_CPUS) |->
                   LET cpu == ANDROID_BUILD_CPUS[i]
                       gn_out_dir == GenOutDirAndroid(build_type, cpu)
                       gn_args == Percent(GN_ANDROID_ARGS, <<Lower(Str(debug)), cpu>>)
                   IN  WithEnv(GnCmd(gn_out_dir, gn_args), env)]
    IN  IF platform = "ios" THEN ios \o macos ELSE android

\* lines 206-220 without the loop of lines 212-215
NinjaCommands_WithoutMacos(platform, debug, archs, env) ==
    LET build_type == BuildType(debug)
        ios == [i \in 1..Len(archs) |->
                   LET tenv == Split(archs[i])[1]
                       arch == Split(archs[i])[2]
                       dir == NinjaOutDirIos(build_type, tenv, arch)
                   IN  WithEnv(Cmd("ninja", dir, "", "", << <<dir, "framework_objc">> >>, NoPath),
                               env)]
        android == [i \in 1..Len(ANDROID_BUILD_CPUS) |->
                   LET cpu == ANDROID_BUILD_CPUS[i]
                       dir == NinjaOutDirAndroid(build_type, cpu)
                   IN  WithEnv(Cmd("ninja", dir, "", "",
                                   << <<dir, "libwebrtc">>,
                                      <<dir, "libjingle_peerconnection_so">> >>,
                                   NoPath),
                               env)]
    IN  IF platform = "ios" THEN ios ELSE android

\* lines 206-220: the ninja commands of the compile phase, in order
NinjaCommands(platform, debug, archs, env) ==
    LET build_type == BuildType(debug)
        ios == [i \in 1..Len(archs) |->
                   LET tenv == Split(archs[i])[1]
                       arch == Split(archs[i])[2]
                       dir == NinjaOutDirIos(build_type, tenv, arch)
                   IN  WithEnv(Cmd("ninja", dir, "", "", << <<dir, "framework_objc">> >>, NoPath),
                               env)]
        macos == [i \in 1..Len(MACOS_BUILD_ARCHS) |->
                   LET arch == MACOS_BUILD_ARCHS[i]
                       dir == NinjaOutDirMacos(build_type, arch)
                   IN  WithEnv(Cmd("ninja", dir, "", "", << <<dir, "mac_framework_objc">> >>,
                                   NoPath),
                               env)]
        android == [i \in 1..Len(ANDROID_BUILD_CPUS) |->
                   LET cpu == ANDROID_BUILD_CPUS[i]
                       dir == NinjaOutDirAndroid(build_type, cpu)
                   IN  WithEnv(Cmd("ninja", dir, "", "",
                                   << <<dir, "libwebrtc">>,
                                      <<dir, "libjingle_peerconnection_so">> >>,
                                   NoPath),
                               env)]
    IN  IF platform = "ios" THEN ios \o macos ELSE android

\* line 229: the simulator entries, in list order
Simulators(archs) == SelectSeq(archs, LAMBDA item : StartsWith(item, "simulator"))

\* simulators[-1] in the place of simulators[0]
CanonicalSimulator_Last(archs) == Simulators(archs)[Len(Simulators(archs))]

\* lines 230, 248: simulators[0]
CanonicalSimulator(archs) == Simulators(archs)[1]

\* lines 247-248: the entries whose frameworks go into the bundle
EffectiveArchs(archs) ==
    Append(SelectSeq(archs, LAMBDA item : ~StartsWith(item, "simulator")),
           CanonicalSimulator(archs))

\* lines 230-233: the fat framework, a sibling of the canonical simulator's framework
FatFrameworkPath(debug, archs) ==
    LET tenv == Split(CanonicalSimulator(archs))[1]
        arch == Split(CanonicalSimulator(archs))[2]
    IN  <<FatOutDir(BuildType(debug), tenv, arch), "fat-WebRTC.framework">>

\* lines 231-232, 241: the canonical simulator's framework
OrigFrameworkPath(debug, archs) ==
    <<FatFrameworkPath(debug, archs)[1], "WebRTC.framework">>

\* line 242
BakFrameworkPath(debug, archs) ==
    <<FatFrameworkPath(debug, archs)[1], "bak-WebRTC.framework">>

\* lines 234-238: the binaries lipo merges
SlicePaths(debug, archs) ==
    LET sims == Simulators(archs)
    IN  [i \in 1..Len(sims) |->
            <<SliceOutDir(BuildType(debug), Split(sims[i])[1], Split(sims[i])[2]),
              "WebRTC.framework">>]

\* line 239
LipoCommand(debug, archs) ==
    Cmd("lipo", "", "", "", SlicePaths(debug, archs), FatFrameworkPath(debug, archs))

\* lines 253-259 and 267-275: the -framework arguments of xcodebuild
BundleFrameworks(debug, archs) ==
    LET eff == EffectiveArchs(archs)
        ios == [i \in 1..Len(eff) |->
                  <<BundleOutDirIos(BuildType(debug), Split(eff[i])[1], Split(eff[i])[2]),
                    "WebRTC.framework">>]
        macos == [i \in 1..Len(MACOS_BUILD_ARCHS) |->
                  <<BundleOutDirMacos(BuildType(debug), MACOS_BUILD_ARCHS[i]),
                    "WebRTC.framework">>]
    IN  ios \o macos

\* lines 251-260 and 265-276
XcodebuildCommand(debug, archs) ==
    Cmd("xcodebuild", "", "", "", BundleFrameworks(debug, archs),
        <<BUILD_DIR, "WebRTC.xcframework">>)

\* lines 261, 277 and 291: tar zcf <name> <member>, cwd = build_dir
TarCommand(name, member) ==
    Cmd("tar", BUILD_DIR, "", "", << <<BUILD_DIR, member>> >>, <<BUILD_DIR, name>>)

\* lines 266-272 with the strip in the loop of lines 273-275 as well
StripCommands_DesktopToo(debug, archs) ==
    LET all == BundleFrameworks(debug, archs)
    IN  [i \in 1..Len(all) |-> Cmd("bitcode_strip", "", "", "", <<all[i]>>, all[i])]

\* lines 266-272: the bitcode_strip commands, in order; -r and -o name the same binary
StripCommands(debug, archs) ==
    LET eff == EffectiveArchs(archs)
    IN  [i \in 1..Len(eff) |->
            LET framework_path ==
                    <<BundleOutDirIos(BuildType(debug), Split(eff[i])[1], Split(eff[i])[2]),
                      "WebRTC.framework">>
            IN  Cmd("bitcode_strip", "", "", "", <<framework_path>>, framework_path)]

\* line 289
JarCommand ==
    Cmd("jar", BUILD_DIR, "", "", << <<BUILD_DIR, "lib">> >>,
        <<BUILD_DIR, "libjingle_peerconnection.so.jar">>)

\* lines 110, 122, 125, 131, 156
ToolCommand(tool) == Cmd(tool, "", "", "", <<>>, NoPath)

(***************************************************************************)
(* What the external tools do to the file system when they succeed         *)
(***************************************************************************)
\* the products of one ninja target, built from the generated build files
NinjaProducts(dir, target, buildfiles) ==
    CASE target \in {"framework_objc", "mac_framework_objc"} ->
            {<<<<dir, "WebRTC.framework">>,
               File("framework", buildfiles.slices, buildfiles.bitcode)>>}
      [] target = "libwebrtc" ->
            {<<<<dir, "lib.java/sdk/android/libwebrtc.jar">>, File("jar", {}, FALSE)>>}
      [] target = "libjingle_peerconnection_so" ->
            {<<<<dir, "libjingle_peerconnection_so.so">>,
               File("so", buildfiles.slices, FALSE)>>}
      [] OTHER -> {}

\* whether the tool can return 0 in the present file system
CanSucceed(c) ==
    CASE c.tool = "gn gen" -> cwd = "src"
      [] c.tool = "ninja" -> cwd = "src" /\ <<c.dir, "build.ninja">> \in DOMAIN out
      [] c.tool = "lipo" ->
            /\ cwd = "src"
            /\ \A i \in 1..Len(c.inputs) : c.inputs[i] \in DOMAIN out
            /\ c.output \in DOMAIN out
            /\ \A i, j \in 1..Len(c.inputs) :
                  i # j => out[c.inputs[i]].slices \cap out[c.inputs[j]].slices = {}
      [] c.tool = "xcodebuild" ->
            /\ cwd = "src"
            /\ bdirExists
            /\ \A i \in 1..Len(c.inputs) : c.inputs[i] \in DOMAIN out
      [] c.tool = "bitcode_strip" -> cwd = "src" /\ c.output \in DOMAIN out
      [] c.tool = "tar" ->
            /\ bdirExists
            /\ IF c.inputs[1][2] = "*.jar" THEN JarGlob(bdir) # {}
                                          ELSE c.inputs[1][2] \in DOMAIN bdir
      [] c.tool = "jar" -> bdirExists /\ c.inputs[1][2] \in DOMAIN bdir
      [] c.tool = "fetch" -> webrtcDir
      [] c.tool = "install-build-deps" -> srcDir
      [] OTHER -> TRUE

\* the 'out' tree after the tool has succeeded
OutAfter(c) ==
    CASE c.tool = "gn gen" ->
            Put(out, <<c.dir, "build.ninja">>,
                File("ninja", {c.cpu}, ValueOf(c.gn_args, "enable_ios_bitcode") = "true"))
      [] c.tool = "ninja" ->
            LET made == UNION {NinjaProducts(c.dir, c.inputs[i][2], out[<<c.dir, "build.ninja">>])
                                 : i \in 1..Len(c.inputs)}
            IN  [x \in DOMAIN out \cup {m[1] : m \in made} |->
                    IF \E m \in made : m[1] = x
                    THEN (CHOOSE m \in made : m[1] = x)[2]
                    ELSE out[x]]
      [] c.tool = "lipo" ->
            Put(out, c.output,
                File("framework",
                     UNION {out[c.inputs[i]].slices : i \in 1..Len(c.inputs)},
                     \A i \in 1..Len(c.inputs) : out[c.inputs[i]].bitcode))
      [] c.tool = "bitcode_strip" ->
            Put(out, c.output, File(out[c.inputs[1]].kind, out[c.inputs[1]].slices, FALSE))
      [] OTHER -> out

\* the build directory after the tool has succeeded
BdirAfter(c) ==
    CASE c.tool = "xcodebuild" ->
            Put(bdir, c.output[2],
                Entry("xcframework", {<<c.inputs[i], out[c.inputs[i]]>> : i \in 1..Len(c.inputs)}))
      [] c.tool = "tar" /\ c.inputs[1][2] = "*.jar" ->
            Put(bdir, c.output[2],
                Entry("tgz", {<<<<BUILD_DIR, n>>,
                                File(bdir[n].kind, {m[1][2] : m \in bdir[n].items}, FALSE)>>
                              : n \in JarGlob(bdir)}))
      [] c.tool = "tar" /\ c.inputs[1][2] # "*.jar" ->
            Put(bdir, c.output[2], Entry("tgz", bdir[c.inputs[1][2]].items))
      [] c.tool = "jar" ->
            Put(bdir, c.output[2], Entry("jar", bdir[c.inputs[1][2]].items))
      [] OTHER -> bdir

\* the effect of a command that ran to its end
Effect(c) ==
    /\ out' = OutAfter(c)
    /\ bdir' = BdirAfter(c)
    /\ depotTools' = (depotTools \/ c.tool = "git clone")
    /\ srcDir' = (srcDir \/ c.tool = "fetch")
    /\ UNCHANGED <<webrtcDir, bdirExists>>

\* a command that was stopped before it wrote anything
NoEffect == UNCHANGED <<depotTools, webrtcDir, srcDir, out, bdirExists, bdir>>

(***************************************************************************)
(* Utilities                                                               *)
(***************************************************************************)
fsVars == <<depotTools, webrtcDir, srcDir, out, bdirExists, bdir>>

\* sys.exit(status), and the end of the interpreter after an uncaught exception
SysExit(status, kind) ==
    /\ pc' = "exit"
    /\ exitStatus' = status % 256
    /\ exitKind' = kind

\* lines 77-79: sh() spawns the command and waits for it
sh(c) ==
    /\ running' = running \cup {c}
    /\ log' = Append(log, [cmd |-> c, res |-> "running", code |-> 0])

\* the last entry of the log gets the outcome of the command
Logged(res, code) ==
    [log EXCEPT ![Len(log)] = [cmd |-> log[Len(log)].cmd, res |-> res, code |-> code]]

\* line 79: check_call returns, sh() returns to its caller
ShReturns ==
    /\ pc # "exit"
    /\ \E c \in running :
          /\ CanSucceed(c)
          /\ Effect(c)
          /\ running' = running \ {c}
          /\ log' = Logged("ok", 0)
    /\ UNCHANGED <<iosArchs, args, pc, idx, exitStatus, exitKind, cwd,
                   canonical, interrupts, reads, start, prev>>

\* the handler of lines 80-81 written like the one of lines 82-83
CalledProcessErrorHandler_Pass(returncode) ==
    UNCHANGED <<pc, exitStatus, exitKind, interrupts>>

\* lines 80-81: except subprocess.CalledProcessError as e: sys.exit(e.returncode)
CalledProcessErrorHandler(returncode) ==
    /\ SysExit(returncode, "tool")
    /\ UNCHANGED interrupts

\* lines 82-83: except KeyboardInterrupt: pass
KeyboardInterruptHandler ==
    /\ interrupts' = interrupts + 1
    /\ UNCHANGED <<pc, exitStatus, exitKind>>

\* line 79 raises CalledProcessError: the command returned a non-zero status
ShCalledProcessError ==
    /\ pc # "exit"
    /\ \E c \in running, returncode \in ExitCodes :
          /\ NoEffect
          /\ running' = running \ {c}
          /\ log' = Logged("fail", returncode)
          /\ CalledProcessErrorHandler(returncode)
    /\ UNCHANGED <<iosArchs, args, idx, cwd, canonical, reads, start, prev>>

\* line 79 raises KeyboardInterrupt: check_call kills the command, which had
\* written all of its output or none of it
ShKeyboardInterrupt ==
    /\ pc # "exit"
    /\ interrupts < MaxInterrupts
    /\ \E c \in running :
          /\ \/ NoEffect
             \/ CanSucceed(c) /\ Effect(c)
          /\ running' = running \ {c}
          /\ log' = Logged("interrupt", 0)
          /\ KeyboardInterruptHandler
    /\ UNCHANGED <<iosArchs, args, idx, cwd, canonical, reads, start, prev>>

\* lines 92-97: rmr(build_dir) followed by lines 85-90: mkdirp(build_dir)
RecreatedBuildDir == EmptyMap

\* lines 92-97: rmr('out')
RemovedOut == EmptyMap

(***************************************************************************)
(* The command line                                                        *)
(***************************************************************************)
\* the argument 'dir' names the directory that holds build_webrtc, or a
\* directory that does not exist
Dirs == {"work", "missing"}

\* line 322: os.path.isdir(args.dir)
IsDir(dir) == dir = "work"

\* line 304: what parse_args can return
ArgSpace ==
    [dir : Dirs, setup : BOOLEAN, build : BOOLEAN, sync : BOOLEAN,
     ios : BOOLEAN, android : BOOLEAN, debug : BOOLEAN]

\* line 327
Platform(a) == IF a.ios THEN "ios" ELSE "android"

\* lines 306-340: the status main exits with before it runs an operation, or
\* the operation it runs
Dispatch(a) ==
    IF ~(a.setup \/ a.build \/ a.sync) THEN "invalid"
    ELSE IF a.setup /\ a.build THEN "invalid"
    ELSE IF ~(a.ios \/ a.android) THEN "invalid"
    ELSE IF a.ios /\ a.android THEN "invalid"
    ELSE IF ~IsDir(a.dir) THEN "nodir"
    ELSE IF a.setup THEN "setup"
    ELSE IF a.sync THEN "sync"
    ELSE "build"

\* the build directory may hold what an earlier release left there; of these
\* files only the names are known
EarlierArtefacts(platform) ==
    IF platform = "ios"
    THEN [n \in {"WebRTC.xcframework-bitcode.tgz", "WebRTC.xcframework.tgz"} |-> Entry("tgz", {})]
    ELSE [n \in {"libwebrtc.jar", "libjingle_peerconnection.so.jar", "android-webrtc.tgz"}
            |-> Entry(IF n = "android-webrtc.tgz" THEN "tgz" ELSE "jar", {})]

NoPrev == [built |-> FALSE, names |-> {}, interrupts |-> 0]

\* the file system and the process before the first invocation
InitRest ==
    /\ args \in ArgSpace
    /\ pc = "idle"
    /\ idx = 1
    /\ running = {}
    /\ log = <<>>
    /\ exitStatus = 0
    /\ exitKind = "none"
    /\ cwd = "start"
    /\ depotTools \in BOOLEAN
    /\ webrtcDir = depotTools
    /\ srcDir = depotTools
    /\ out = EmptyMap
    /\ bdirExists \in BOOLEAN
    /\ bdir = IF bdirExists THEN EarlierArtefacts(Platform(args)) ELSE EmptyMap
    /\ canonical = <<>>
    /\ interrupts = 0
    /\ reads = {}
    /\ start = [bdirExists |-> bdirExists, bdir |-> bdir]
    /\ prev = NoPrev

Init ==
    /\ iosArchs = IOS_BUILD_ARCHS
    /\ InitRest

\* the orderings of a list of distinct entries
Orderings(s) ==
    {o \in [1..Len(s) -> SeqToSet(s)] : \A e \in SeqToSet(s) : \E i \in 1..Len(s) : o[i] = e}

\* IOS_BUILD_ARCHS written in any order; only an iOS build reads it
InitOrder ==
    /\ InitRest
    /\ iosArchs \in IF Dispatch(args) = "build" /\ Platform(args) = "ios"
                     THEN Orderings(IOS_BUILD_ARCHS)
                     ELSE {IOS_BUILD_ARCHS}

\* lines 294-340: a new process is started with the command line; it
\* validates the arguments and calls the selected operation
Main ==
    /\ pc \in {"idle", "exit"}
    /\ IF Dispatch(args) \in {"invalid", "nodir"}
       THEN SysExit(1, Dispatch(args))
       ELSE pc' = Dispatch(args) /\ exitStatus' = 0 /\ exitKind' = "none"
    /\ idx' = 1
    /\ running' = {}
    /\ log' = <<>>
    /\ cwd' = "start"
    /\ canonical' = <<>>
    /\ reads' = {}
    /\ start' = [bdirExists |-> bdirExists, bdir |-> bdir]
    /\ prev' = IF pc = "exit" /\ exitKind = "done" /\ Dispatch(args) = "build"
               THEN [built |-> TRUE, names |-> DOMAIN bdir, interrupts |-> interrupts]
               ELSE NoPrev
    /\ UNCHANGED <<iosArchs, args, fsVars, interrupts>>

(***************************************************************************)
(* setup(target_dir, platform)                                             *)
(***************************************************************************)
\* lines 103-110: mkdirp(target_dir), chdir, maybe fetch depot_tools
SetupDepotTools ==
    /\ pc = "setup" /\ running = {}
    /\ cwd' = "target"
    /\ IF ~depotTools
       THEN sh(ToolCommand("git clone"))
       ELSE UNCHANGED <<running, log>>
    /\ pc' = "setup_fetch"
    /\ UNCHANGED <<iosArchs, args, idx, exitStatus, exitKind, fsVars,
                   canonical, interrupts, reads, start, prev>>

\* lines 113-122: maybe fetch WebRTC
SetupFetch ==
    /\ pc = "setup_fetch" /\ running = {}
    /\ IF ~webrtcDir
       THEN /\ webrtcDir' = TRUE
            /\ cwd' = "webrtc"
            /\ sh(WithEnv(ToolCommand("fetch"), SetupPath(TargetDir(args.dir))))
       ELSE UNCHANGED <<webrtcDir, cwd, running, log>>
    /\ pc' = "setup_gclient"
    /\ UNCHANGED <<iosArchs, args, idx, exitStatus, exitKind, depotTools,
                   srcDir, out, bdirExists, bdir, canonical, interrupts, reads, start, prev>>

\* line 125: run gclient
SetupGclient ==
    /\ pc = "setup_gclient" /\ running = {}
    /\ sh(WithEnv(ToolCommand("gclient sync"), SetupPath(TargetDir(args.dir))))
    /\ pc' = "setup_deps"
    /\ UNCHANGED <<iosArchs, args, idx, exitStatus, exitKind, cwd, fsVars,
                   canonical, interrupts, reads, start, prev>>

\* lines 128-131: install dependencies; os.chdir raises when src is missing
SetupDeps ==
    /\ pc = "setup_deps" /\ running = {}
    /\ IF Platform(args) = "android"
       THEN IF srcDir
            THEN /\ cwd' = "src"
                 /\ sh(ToolCommand("install-build-deps"))
                 /\ pc' = "setup_end"
                 /\ UNCHANGED <<exitStatus, exitKind>>
            ELSE /\ SysExit(1, "exception")
                 /\ UNCHANGED <<cwd, running, log>>
       ELSE /\ pc' = "setup_end"
            /\ UNCHANGED <<cwd, running, log, exitStatus, exitKind>>
    /\ UNCHANGED <<iosArchs, args, idx, fsVars, canonical, interrupts,
                   reads, start, prev>>

\* lines 330-332: setup returns, main exits with 0
SetupReturns ==
    /\ pc = "setup_end" /\ running = {}
    /\ SysExit(0, "done")
    /\ UNCHANGED <<iosArchs, args, idx, running, log, cwd, fsVars,
                   canonical, interrupts, reads, start, prev>>

(***************************************************************************)
(* sync(target_dir, platform)                                              *)
(***************************************************************************)
\* the check of lines 139 and 165 left out
SourceFound_NotChecked == TRUE

\* lines 139 and 165: os.path.isdir(webrtc_dir)
SourceFound == srcDir

\* lines 135-156
SyncStart ==
    /\ pc = "sync" /\ running = {}
    /\ IF ~SourceFound
       THEN /\ SysExit(1, "nosource")
            /\ UNCHANGED <<cwd, running, log>>
       ELSE /\ cwd' = "src"
            /\ sh(WithEnv(ToolCommand("gclient sync -D"),
                       SyncPath(TargetDir(args.dir), Platform(args))))
            /\ pc' = "sync_end"
            /\ UNCHANGED <<exitStatus, exitKind>>
    /\ UNCHANGED <<iosArchs, args, idx, fsVars, canonical, interrupts,
                   reads, start, prev>>

\* lines 335-337: sync returns, main exits with 0
SyncReturns ==
    /\ pc = "sync_end" /\ running = {}
    /\ SysExit(0, "done")
    /\ UNCHANGED <<iosArchs, args, idx, running, log, cwd, fsVars,
                   canonical, interrupts, reads, start, prev>>

(***************************************************************************)
(* build(target_dir, platform, debug)                                      *)
(***************************************************************************)
\* lines 160-183 with the cleanup of lines 223-224 done here as well
BuildStart_CleansBuildDir ==
    /\ pc = "build" /\ running = {}
    /\ IF ~SourceFound
       THEN /\ SysExit(1, "nosource")
            /\ UNCHANGED <<cwd, out, idx, bdirExists, bdir>>
       ELSE /\ cwd' = "src"
            /\ out' = RemovedOut
            /\ bdirExists' = TRUE
            /\ bdir' = RecreatedBuildDir
            /\ pc' = "gn"
            /\ idx' = 1
            /\ UNCHANGED <<exitStatus, exitKind>>
    /\ UNCHANGED <<iosArchs, args, running, log, depotTools, webrtcDir,
                   srcDir, canonical, interrupts, reads, start, prev>>

\* lines 160-183: the precondition, the environment, chdir and the cleanup
\* of the old 'out' tree
BuildStart ==
    /\ pc = "build" /\ running = {}
    /\ IF ~SourceFound
       THEN /\ SysExit(1, "nosource")
            /\ UNCHANGED <<cwd, out, idx>>
       ELSE /\ cwd' = "src"
            /\ out' = RemovedOut
            /\ pc' = "gn"
            /\ idx' = 1
            /\ UNCHANGED <<exitStatus, exitKind>>
    /\ UNCHANGED <<iosArchs, args, running, log, depotTools, webrtcDir,
                   srcDir, bdirExists, bdir, canonical, interrupts, reads, start, prev>>

\* lines 170-178: env['PATH'] of build()
BuildEnv == BuildPath(TargetDir(args.dir), Platform(args))

\* lines 186-203: one iteration of the generate loops
GnGen ==
    /\ pc = "gn" /\ running = {}
    /\ LET cmds == GnCommands(Platform(args), args.debug, iosArchs, BuildEnv)
       IN  /\ sh(cmds[idx])
           /\ IF idx < Len(cmds)
              THEN idx' = idx + 1 /\ pc' = "gn"
              ELSE idx' = 1 /\ pc' = "ninja"
    /\ UNCHANGED <<iosArchs, args, exitStatus, exitKind, cwd, fsVars,
                   canonical, interrupts, reads, start, prev>>

\* lines 206-220: one iteration of the compile loops
Ninja ==
    /\ pc = "ninja" /\ running = {}
    /\ LET cmds == NinjaCommands(Platform(args), args.debug, iosArchs, BuildEnv)
       IN  /\ sh(cmds[idx])
           /\ IF idx < Len(cmds)
              THEN idx' = idx + 1 /\ pc' = "ninja"
              ELSE idx' = 1 /\ pc' = "package"
    /\ UNCHANGED <<iosArchs, args, exitStatus, exitKind, cwd, fsVars,
                   canonical, interrupts, reads, start, prev>>

\* shutil.move(src, dst) inside the 'out' tree
Moved(tree, src, dst) == Del(Put(tree, dst, tree[src]), {src})

\* lines 244-245 in the other order: line 245 first, then line 244
Swapped_PromotedFirst(tree, debug, archs) ==
    Moved(Moved(tree, FatFrameworkPath(debug, archs), OrigFrameworkPath(debug, archs)),
          OrigFrameworkPath(debug, archs), BakFrameworkPath(debug, archs))

\* lines 241-245: the fat framework takes the place of the canonical
\* simulator's framework, which is set aside
Swapped(tree, debug, archs) ==
    Moved(Moved(tree, OrigFrameworkPath(debug, archs), BakFrameworkPath(debug, archs)),
          FatFrameworkPath(debug, archs), OrigFrameworkPath(debug, archs))

\* lines 222-239, iOS: the build directory is recreated, the canonical
\* simulator's framework is copied and lipo is called on the copy;
\* shutil.copytree raises when the framework is missing
PackageIos ==
    /\ pc = "package" /\ running = {}
    /\ Platform(args) = "ios"
    /\ bdirExists' = TRUE
    /\ bdir' = RecreatedBuildDir
    /\ canonical' = CanonicalSimulator(iosArchs)
    /\ IF OrigFrameworkPath(args.debug, iosArchs) \in DOMAIN out
       THEN /\ out' = Put(out, FatFrameworkPath(args.debug, iosArchs),
                          out[OrigFrameworkPath(args.debug, iosArchs)])
            /\ sh(LipoCommand(args.debug, iosArchs))
            /\ pc' = "swap"
            /\ UNCHANGED <<exitStatus, exitKind>>
       ELSE /\ SysExit(1, "exception")
            /\ UNCHANGED <<out, running, log>>
    /\ reads' = reads \cup {OrigFrameworkPath(args.debug, iosArchs)}
    /\ UNCHANGED <<iosArchs, args, idx, cwd, depotTools, webrtcDir, srcDir,
                   interrupts, start, prev>>

\* lines 241-260: the swap, then the first xcodebuild
SwapAndBundle ==
    /\ pc = "swap" /\ running = {}
    /\ out' = Swapped(out, args.debug, iosArchs)
    /\ sh(XcodebuildCommand(args.debug, iosArchs))
    /\ pc' = "tar_bitcode"
    /\ reads' = reads \cup {OrigFrameworkPath(args.debug, iosArchs),
                            FatFrameworkPath(args.debug, iosArchs)}
    /\ UNCHANGED <<iosArchs, args, idx, exitStatus, exitKind, cwd, depotTools,
                   webrtcDir, srcDir, bdirExists, bdir, canonical, interrupts, start, prev>>

\* line 261
TarBitcode ==
    /\ pc = "tar_bitcode" /\ running = {}
    /\ sh(TarCommand("WebRTC.xcframework-bitcode.tgz", "WebRTC.xcframework"))
    /\ pc' = "rm_bundle"
    /\ UNCHANGED <<iosArchs, args, idx, exitStatus, exitKind, cwd, fsVars,
                   canonical, interrupts, reads, start, prev>>

\* line 262: rmr(xcframework_path)
RemoveBundle ==
    /\ pc = "rm_bundle" /\ running = {}
    /\ bdir' = Del(bdir, {"WebRTC.xcframework"})
    /\ pc' = "strip"
    /\ idx' = 1
    /\ UNCHANGED <<iosArchs, args, running, log, exitStatus, exitKind, cwd,
                   depotTools, webrtcDir, srcDir, out, bdirExists, canonical, interrupts,
                   reads, start, prev>>

\* lines 267-272: one iteration of the strip loop
BitcodeStrip ==
    /\ pc = "strip" /\ running = {}
    /\ LET cmds == StripCommands(args.debug, iosArchs)
       IN  /\ sh(cmds[idx])
           /\ IF idx < Len(cmds)
              THEN idx' = idx + 1 /\ pc' = "strip"
              ELSE idx' = 1 /\ pc' = "xcodebuild_stripped"
    /\ UNCHANGED <<iosArchs, args, exitStatus, exitKind, cwd, fsVars,
                   canonical, interrupts, reads, start, prev>>

\* lines 273-276
XcodebuildStripped ==
    /\ pc = "xcodebuild_stripped" /\ running = {}
    /\ sh(XcodebuildCommand(args.debug, iosArchs))
    /\ pc' = "tar_stripped"
    /\ UNCHANGED <<iosArchs, args, idx, exitStatus, exitKind, cwd, fsVars,
                   canonical, interrupts, reads, start, prev>>

\* line 277
TarStripped ==
    /\ pc = "tar_stripped" /\ running = {}
    /\ sh(TarCommand("WebRTC.xcframework.tgz", "WebRTC.xcframework"))
    /\ pc' = "build_end"
    /\ UNCHANGED <<iosArchs, args, idx, exitStatus, exitKind, cwd, fsVars,
                   canonical, interrupts, reads, start, prev>>

\* lines 286-287: the native library of the i-th architecture
LibPath(i, debug) ==
    <<LibOutDir(BuildType(debug), ANDROID_BUILD_CPUS[i]), "libjingle_peerconnection_so.so">>

\* the native libraries the loop of lines 283-287 reads in its first k iterations
LibPaths(k, debug) == {LibPath(i, debug) : i \in 1..k}

\* lines 283-287: the staging tree after the first k architectures were
\* copied, as the files it holds; a later copy into the same ABI directory
\* replaces the earlier one
Staged(k, debug) ==
    {<<<<"lib", ANDROID_CPU_ABI_MAP[ANDROID_BUILD_CPUS[i]]>>,
       out[LibPath(i, debug)]>>
     : i \in {j \in 1..k :
                 \A l \in (j + 1)..k :
                    ANDROID_CPU_ABI_MAP[ANDROID_BUILD_CPUS[l]] # ANDROID_CPU_ABI_MAP[ANDROID_BUILD_CPUS[j]]}}

\* the architectures whose native library is missing from 'out'
MissingLibs(debug) ==
    {i \in 1..Len(ANDROID_BUILD_CPUS) : LibPath(i, debug) \notin DOMAIN out}

Min(S) == CHOOSE x \in S : \A y \in S : x <= y

\* lines 222-224 and 280-289, Android: the build directory is recreated,
\* libwebrtc.jar and the native libraries are copied and jar is called;
\* shutil.copy raises at the first file that is missing
PackageAndroid ==
    /\ pc = "package" /\ running = {}
    /\ Platform(args) = "android"
    /\ bdirExists' = TRUE
    /\ LET jar == <<JarOutDir(BuildType(args.debug), ANDROID_BUILD_CPUS[1]),
                    "lib.java/sdk/android/libwebrtc.jar">>
           missing == MissingLibs(args.debug)
       IN  IF jar \notin DOMAIN out
           THEN /\ bdir' = RecreatedBuildDir
                /\ reads' = reads \cup {jar}
                /\ SysExit(1, "exception")
                /\ UNCHANGED <<running, log>>
           ELSE IF missing # {}
           THEN /\ bdir' = Put(Put(RecreatedBuildDir, "libwebrtc.jar", Entry("jar", {})),
                               "lib", Entry("dir", Staged(Min(missing) - 1, args.debug)))
                /\ reads' = reads \cup {jar} \cup LibPaths(Min(missing), args.debug)
                /\ SysExit(1, "exception")
                /\ UNCHANGED <<running, log>>
           ELSE /\ bdir' = Put(Put(RecreatedBuildDir, "libwebrtc.jar", Entry("jar", {})),
                               "lib", Entry("dir", Staged(Len(ANDROID_BUILD_CPUS), args.debug)))
                /\ reads' = reads \cup {jar} \cup LibPaths(Len(ANDROID_BUILD_CPUS), args.debug)
                /\ sh(JarCommand)
                /\ pc' = "rm_lib"
                /\ UNCHANGED <<exitStatus, exitKind>>
    /\ UNCHANGED <<iosArchs, args, idx, cwd, depotTools, webrtcDir, srcDir,
                   out, canonical, interrupts, start, prev>>

\* lines 290-291: the staging tree is removed, then the combined archive is made
RemoveLibAndTar ==
    /\ pc = "rm_lib" /\ running = {}
    /\ bdir' = Del(bdir, {"lib"})
    /\ sh(TarCommand("android-webrtc.tgz", "*.jar"))
    /\ pc' = "build_end"
    /\ UNCHANGED <<iosArchs, args, idx, exitStatus, exitKind, cwd, depotTools,
                   webrtcDir, srcDir, out, bdirExists, canonical, interrupts, reads, start, prev>>

\* line 278 (iOS only), then lines 340-342: build returns, main exits with 0
BuildReturns ==
    /\ pc = "build_end" /\ running = {}
    /\ bdir' = IF Platform(args) = "ios" THEN Del(bdir, {"WebRTC.xcframework"}) ELSE bdir
    /\ SysExit(0, "done")
    /\ UNCHANGED <<iosArchs, args, idx, running, log, cwd, depotTools,
                   webrtcDir, srcDir, out, bdirExists, canonical, interrupts, reads, start, prev>>

Next ==
    \/ Main
    \/ ShReturns
    \/ ShCalledProcessError
    \/ ShKeyboardInterrupt
    \/ SetupDepotTools
    \/ SetupFetch
    \/ SetupGclient
    \/ SetupDeps
    \/ SetupReturns
    \/ SyncStart
    \/ SyncReturns
    \/ BuildStart
    \/ GnGen
    \/ Ninja
    \/ PackageIos
    \/ SwapAndBundle
    \/ TarBitcode
    \/ RemoveBundle
    \/ BitcodeStrip
    \/ XcodebuildStripped
    \/ TarStripped
    \/ PackageAndroid
    \/ RemoveLibAndTar
    \/ BuildReturns

Spec == Init /\ [][Next]_vars

\* the script with the entries of IOS_BUILD_ARCHS in any order
SpecOrder == InitOrder /\ [][Next]_vars

(***************************************************************************)
(* Properties                                                              *)
(***************************************************************************)
IsBuild == pc # "idle" /\ Dispatch(args) = "build"

IsSync == pc # "idle" /\ Dispatch(args) = "sync"

\* the tools of the assemble phase
PackagingTools == {"lipo", "xcodebuild", "bitcode_strip", "tar", "jar"}

\* the positions of the log that hold a command of the tool
Calls(tool) == {i \in 1..Len(log) : log[i].cmd.tool = tool}

BuildDirUntouched == bdirExists = start.bdirExists /\ bdir = start.bdir

\* C1: in build(), once a command run through sh() has returned a non-zero
\* status c, it is the last command of the invocation, nothing is running
\* and the process has exited with status c; when the command is a ninja
\* command, no command of the assemble phase was issued and the build
\* directory is as it was when the invocation started.
C1_FailFast ==
    IsBuild =>
        \A i \in 1..Len(log) :
            log[i].res = "fail" =>
                /\ i = Len(log)
                /\ running = {}
                /\ pc = "exit"
                /\ exitStatus = log[i].code
                /\ log[i].cmd.tool = "ninja" =>
                      /\ \A j \in 1..Len(log) : log[j].cmd.tool \notin PackagingTools
                      /\ BuildDirUntouched

\* a ninja command has returned 2 while the build directory held earlier artefacts
C1_Witness ==
    /\ IsBuild
    /\ pc = "exit"
    /\ exitStatus = 2
    /\ Len(log) > 4
    /\ log[Len(log)].res = "fail"
    /\ log[Len(log)].code = 2
    /\ log[Len(log)].cmd.tool = "ninja"
    /\ DOMAIN bdir # {}

\* C2: in a build, a ninja command is issued only after every gn gen command
\* of the target list has returned 0, a command of the assemble phase only
\* after every ninja command has returned 0, and at most one command is
\* running at any time.
C2_StrictPhaseOrdering ==
    IsBuild =>
        /\ Cardinality(running) <= 1
        /\ \A i \in Calls("ninja") :
              \A g \in SeqToSet(GnCommands(Platform(args), args.debug, iosArchs, BuildEnv)) :
                  \E j \in 1..(i - 1) : log[j].cmd = g /\ log[j].res = "ok"
        /\ \A i \in 1..Len(log) :
              log[i].cmd.tool \in PackagingTools =>
                  \A n \in SeqToSet(NinjaCommands(Platform(args), args.debug, iosArchs, BuildEnv)) :
                      \E j \in 1..(i - 1) : log[j].cmd = n /\ log[j].res = "ok"

\* C2, as long as no KeyboardInterrupt was delivered
C2_WithoutInterrupt == interrupts = 0 => C2_StrictPhaseOrdering

\* C3: in a build, a command that was interrupted is the last command of the
\* invocation (the run stops), and the interrupt is not reported as an error.
C3_InterruptStopsRun ==
    IsBuild =>
        \A i \in 1..Len(log) :
            log[i].res = "interrupt" =>
                /\ i = Len(log)
                /\ pc = "exit" => exitStatus = 0

\* C4: when build or sync is requested and the source tree is missing, the
\* invocation ends with status 1, no command is ever issued, the working
\* directory is not changed, and the 'out' tree and the build directory stay
\* as they were.
C4_MissingSourceTree ==
    ((IsBuild \/ IsSync) /\ ~srcDir) =>
        /\ pc \in {"build", "sync", "exit"}
        /\ pc = "exit" => (exitStatus = 1 /\ exitKind = "nosource")
        /\ log = <<>>
        /\ running = {}
        /\ cwd = "start"
        /\ out = EmptyMap
        /\ BuildDirUntouched

\* a build was refused for want of the source tree while the build directory
\* held earlier artefacts
C4_Witness ==
    /\ IsBuild
    /\ ~srcDir
    /\ pc = "exit"
    /\ exitStatus = 1
    /\ exitKind = "nosource"
    /\ DOMAIN bdir # {}

IsIosBuild == IsBuild /\ Platform(args) = "ios"

IsAndroidBuild == IsBuild /\ Platform(args) = "android"

\* build() has returned and main has exited with 0
Completed == pc = "exit" /\ exitKind = "done"

BitcodeArchive == "WebRTC.xcframework-bitcode.tgz"

StrippedArchive == "WebRTC.xcframework.tgz"

Bundle == "WebRTC.xcframework"

\* the build directory was recreated in this iOS build
Recreated == Calls("lipo") # {}

\* the frameworks of the effective list
MobileFrameworks ==
    {BundleFrameworks(args.debug, iosArchs)[i] : i \in 1..Len(EffectiveArchs(iosArchs))}

\* C5: in an iOS build, a bitcode_strip command is issued only when the
\* bitcode-preserving archive has been produced; the stripped archive is
\* produced only when every mobile framework binary of the effective list is
\* stripped; the mobile binaries of the bitcode-preserving archive have
\* bitcode and those of the stripped archive have none.
C5_StripAfterArchive ==
    IsIosBuild =>
        /\ Calls("bitcode_strip") # {} => BitcodeArchive \in DOMAIN bdir
        /\ (Recreated /\ StrippedArchive \in DOMAIN bdir) =>
              \A f \in MobileFrameworks : f \in DOMAIN out /\ ~out[f].bitcode
        /\ (Recreated /\ BitcodeArchive \in DOMAIN bdir) =>
              \A m \in bdir[BitcodeArchive].items : m[1] \in MobileFrameworks => m[2].bitcode
        /\ (Recreated /\ StrippedArchive \in DOMAIN bdir) =>
              \A m \in bdir[StrippedArchive].items : m[1] \in MobileFrameworks => ~m[2].bitcode

\* C5, as long as no KeyboardInterrupt was delivered
C5_WithoutInterrupt == interrupts = 0 => C5_StripAfterArchive

\* C6: an iOS build that has completed leaves exactly the two archives in
\* the build directory; while the build runs on the recreated build
\* directory, the bundle exists only between an xcodebuild call and the
\* rmr that follows the tar call.
C6_IosEndState ==
    IsIosBuild =>
        /\ Completed => DOMAIN bdir = {BitcodeArchive, StrippedArchive}
        /\ (Recreated /\ pc # "exit" /\ Bundle \in DOMAIN bdir) =>
              pc \in {"tar_bitcode", "rm_bundle", "tar_stripped", "build_end"}

\* C6, as long as no KeyboardInterrupt was delivered
C6_WithoutInterrupt == interrupts = 0 => C6_IosEndState

\* C7: an Android build that has completed leaves libwebrtc.jar and the
\* combined archive in the build directory and no 'lib' tree, and the
\* native-library archive holds one libjingle_peerconnection_so.so for every
\* architecture of ANDROID_BUILD_CPUS.
C7_AndroidEndState ==
    (IsAndroidBuild /\ Completed) =>
        /\ {"libwebrtc.jar", "android-webrtc.tgz"} \subseteq DOMAIN bdir
        /\ "lib" \notin DOMAIN bdir
        /\ "libjingle_peerconnection.so.jar" \in DOMAIN bdir
        /\ \A i \in 1..Len(ANDROID_BUILD_CPUS) :
              \E m \in bdir["libjingle_peerconnection.so.jar"].items :
                  /\ m[1] = <<"lib", ANDROID_CPU_ABI_MAP[ANDROID_BUILD_CPUS[i]]>>
                  /\ m[2].slices = {ANDROID_BUILD_CPUS[i]}

\* C7, as long as no KeyboardInterrupt was delivered
C7_WithoutInterrupt == interrupts = 0 => C7_AndroidEndState

\* C8: when a build that has completed follows a build with the same command
\* line that had completed, the build directory holds the same file names as
\* after the first; and when the generate phase starts, the 'out' tree is empty.
C8_Idempotence ==
    IsBuild =>
        /\ (pc = "gn" /\ idx = 1 /\ running = {}) => out = EmptyMap
        /\ (prev.built /\ Completed) => DOMAIN bdir = prev.names

\* C8, as long as no KeyboardInterrupt was delivered
C8_WithoutInterrupt == interrupts = 0 => C8_Idempotence

\* the output directory of an entry of IOS_BUILD_ARCHS
DirOfItem(item) == "out/" \o BuildType(args.debug) \o "-ios-" \o item[1] \o "-" \o item[3]

\* C9 (as claimed): whatever the order of the entries of IOS_BUILD_ARCHS, the
\* canonical simulator is the one chosen for the order of the source, and
\* the set-aside framework lies in its directory (stated for the runs that
\* no KeyboardInterrupt disturbs).
C9_SameCanonicalForEveryOrdering ==
    (IsIosBuild /\ interrupts = 0) =>
        /\ canonical # <<>> => canonical = <<"simulator", ":", "arm64">>
        /\ \A f \in DOMAIN out :
              f[2] = "bak-WebRTC.framework" => f[1] = DirOfItem(<<"simulator", ":", "arm64">>)

\* C9 (amended): the canonical simulator is the simulator entry that comes
\* first in IOS_BUILD_ARCHS; the fat and the set-aside framework lie in its
\* directory, and it is the only simulator directory a bundle refers to.
C9_CanonicalIsFirstSimulator ==
    (IsIosBuild /\ canonical # <<>>) =>
        /\ \E k \in 1..Len(iosArchs) :
              /\ iosArchs[k] = canonical
              /\ StartsWith(canonical, "simulator")
              /\ \A j \in 1..(k - 1) : ~StartsWith(iosArchs[j], "simulator")
        /\ \A f \in DOMAIN out :
              f[2] \in {"fat-WebRTC.framework", "bak-WebRTC.framework"} =>
                  f[1] = DirOfItem(canonical)
        /\ \A i \in Calls("xcodebuild") :
              \A k \in 1..Len(log[i].cmd.inputs) :
                  \A j \in 1..Len(iosArchs) :
                      (StartsWith(iosArchs[j], "simulator")
                          /\ log[i].cmd.inputs[k][1] = DirOfItem(iosArchs[j]))
                      => iosArchs[j] = canonical

\* with simulator:x64 written before simulator:arm64, a build has completed
\* with simulator:x64 as the canonical simulator
C9_Witness ==
    /\ IsIosBuild
    /\ Completed
    /\ iosArchs # IOS_BUILD_ARCHS
    /\ canonical = <<"simulator", ":", "x64">>
    /\ Calls("xcodebuild") # {}

\* the directories gn gen, and ninja, were called on before position i of the log
GeneratedBefore(i) == {log[j].cmd.dir : j \in {k \in Calls("gn gen") : k < i}}

CompiledBefore(i) == {log[j].cmd.dir : j \in {k \in Calls("ninja") : k < i}}

\* C10: in a build, the n-th ninja command names the directory of the n-th
\* gn gen command, and every directory of 'out' that the assemble phase
\* reads (through lipo, xcodebuild, bitcode_strip, or through copytree, move
\* and copy) was named by a gn gen and by a ninja command earlier in the
\* invocation.
C10_OutputDirConsistency ==
    IsBuild =>
        /\ \A i \in Calls("ninja") :
              /\ i - Cardinality(Calls("gn gen")) \in Calls("gn gen")
              /\ log[i - Cardinality(Calls("gn gen"))].cmd.dir = log[i].cmd.dir
        /\ \A i \in Calls("lipo") \cup Calls("xcodebuild") \cup Calls("bitcode_strip") :
              \A k \in 1..Len(log[i].cmd.inputs) :
                  log[i].cmd.inputs[k][1] \in GeneratedBefore(i) \cap CompiledBefore(i)
        /\ \A f \in reads :
              f[1] \in GeneratedBefore(Len(log) + 1) \cap CompiledBefore(Len(log) + 1)

\* an iOS build has completed after it read the canonical simulator's
\* directory and called lipo, xcodebuild and bitcode_strip
C10_Witness ==
    /\ IsIosBuild
    /\ Completed
    /\ reads # {}
    /\ Calls("lipo") # {}
    /\ Calls("bitcode_strip") # {}
    /\ Cardinality(Calls("xcodebuild")) = 2
    /\ Cardinality(Calls("ninja")) = 4

\* the modes selected on the command line
SelectedModes(a) ==
    {m \in {"setup", "sync", "build"} :
        \/ m = "setup" /\ a.setup
        \/ m = "sync" /\ a.sync
        \/ m = "build" /\ a.build}

\* C11: when none, or more than one, of --setup, --sync and --build is
\* selected, the invocation exits with status 1 before an operation runs
\* and before a command is issued; an operation runs only when exactly one
\* mode is selected.
C11_ModesMutuallyExclusive ==
    (pc # "idle" /\ Cardinality(SelectedModes(args)) # 1) =>
        /\ pc = "exit"
        /\ exitStatus = 1
        /\ log = <<>>
        /\ running = {}
        /\ cwd = "start"

\* the frameworks of the entries of IOS_BUILD_ARCHS that satisfy the test
FrameworksOf(Test(_)) ==
    {<<DirOfItem(iosArchs[j]), "WebRTC.framework">> :
        j \in {k \in 1..Len(iosArchs) : Test(iosArchs[k])}}

IsSimulator(item) == StartsWith(item, "simulator")

IsDevice(item) == ~StartsWith(item, "simulator")

\* the frameworks of the macOS architectures
DesktopFrameworks ==
    {<<"out/" \o BuildType(args.debug) \o "-macos-" \o MACOS_BUILD_ARCHS[j], "WebRTC.framework">> :
        j \in 1..Len(MACOS_BUILD_ARCHS)}

\* the architectures of the simulator entries
SimulatorArchs == {iosArchs[j][3] : j \in {k \in 1..Len(iosArchs) : IsSimulator(iosArchs[k])}}

\* the positions of the framework in the list
Positions(list, framework) == {k \in 1..Len(list) : list[k] = framework}

\* C12: in an iOS build, the xcodebuild commands name the same framework
\* list; the list names once the framework of every non-simulator entry,
\* once the framework of every macOS architecture and one simulator
\* framework, that of the first simulator entry, and nothing else; and in
\* every bundle and archive the build makes, the binary of that simulator
\* framework holds the slices of all simulator entries.
C12_BundleContents ==
    IsIosBuild =>
        /\ \A i, j \in Calls("xcodebuild") : log[i].cmd.inputs = log[j].cmd.inputs
        /\ \A i \in Calls("xcodebuild") :
              LET list == log[i].cmd.inputs
              IN  /\ \A f \in FrameworksOf(IsDevice) \cup DesktopFrameworks :
                        Cardinality(Positions(list, f)) = 1
                  /\ \A f \in FrameworksOf(IsSimulator) :
                        Cardinality(Positions(list, f)) =
                            IF f = OrigFrameworkPath(args.debug, iosArchs) THEN 1 ELSE 0
                  /\ Len(list) = Cardinality(FrameworksOf(IsDevice)) + 1
                                    + Cardinality(DesktopFrameworks)
        /\ \A n \in DOMAIN bdir :
              \A m \in bdir[n].items :
                  m[1] \in FrameworksOf(IsSimulator) => m[2].slices = SimulatorArchs

\* C12, as long as no KeyboardInterrupt was delivered
C12_WithoutInterrupt == interrupts = 0 => C12_BundleContents

\* the keys of a flag list, in order
Keys(flags) == [i \in 1..Len(flags) |-> flags[i].key]

\* the flag list holds key=value
Has(flags, key, value) == \E i \in 1..Len(flags) : flags[i].key = key /\ flags[i].value = value

\* the flags from position a on
From(flags, a) == SubSeq(flags, a, Len(flags))

\* C13 (as claimed): in an iOS build, the flag list of every gn gen command,
\* of the device and simulator targets and of the macOS target alike, holds
\* ios_enable_code_signing=false, enable_dsyms=true and rtc_include_tests=false
\* (stated for the runs that no KeyboardInterrupt disturbs).
C13_LayeredFlags ==
    (IsIosBuild /\ interrupts = 0) =>
        \A i \in Calls("gn gen") :
            /\ Has(log[i].cmd.gn_args, "ios_enable_code_signing", "false")
            /\ Has(log[i].cmd.gn_args, "enable_dsyms", "true")
            /\ Has(log[i].cmd.gn_args, "rtc_include_tests", "false")

\* C13 (amended): in an iOS build, the flag list of every gn gen command
\* holds, right after the five common flags, enable_dsyms=true and
\* rtc_include_tests=false; then, for a target with a variant, the six iOS
\* flags, of which ios_enable_code_signing=false is one and
\* target_environment names the variant; for the macOS target, the two
\* macOS flags and no ios_enable_code_signing flag.
C13_LayeredFlagsApple ==
    IsIosBuild =>
        \A i \in Calls("gn gen") :
            LET flags == log[i].cmd.gn_args
            IN  /\ Len(flags) >= 7
                /\ flags[6] = Flag("enable_dsyms", "true", FALSE)
                /\ flags[7] = Flag("rtc_include_tests", "false", FALSE)
                /\ IF i <= Len(iosArchs)
                   THEN /\ Keys(From(flags, 8)) =
                             <<"enable_ios_bitcode", "ios_deployment_target",
                               "ios_enable_code_signing", "target_os", "use_xcode_clang",
                               "target_environment">>
                        /\ Has(flags, "ios_enable_code_signing", "false")
                        /\ Has(flags, "target_os", "ios")
                        /\ flags[13].value = iosArchs[i][1]
                   ELSE /\ From(flags, 8) =
                             <<Flag("target_os", "mac", TRUE),
                               Flag("use_xcode_clang", "false", FALSE)>>
                        /\ \A k \in 1..Len(flags) : flags[k].key # "ios_enable_code_signing"

\* an iOS build has generated the three iOS targets and the macOS target
C13_Witness ==
    /\ IsIosBuild
    /\ Cardinality(Calls("gn gen")) = 4
    /\ log[4].cmd.tool = "gn gen"
    /\ log[4].cmd.os = "mac"
    /\ log[4].res = "ok"

\* the architecture of the i-th target of the build
ArchOfTarget(i) ==
    IF Platform(args) = "android" THEN ANDROID_BUILD_CPUS[i]
    ELSE IF i <= Len(iosArchs) THEN iosArchs[i][3]
    ELSE MACOS_BUILD_ARCHS[i - Len(iosArchs)]

\* the positions of the key in the flag list
KeyPositions(flags, key) == {k \in 1..Len(flags) : flags[k].key = key}

CommonKeys ==
    <<"treat_warnings_as_errors", "is_component_build", "rtc_libvpx_build_vp9",
      "is_debug", "target_cpu">>

AppleKeys == <<"enable_dsyms", "rtc_include_tests">>

IosKeys ==
    <<"enable_ios_bitcode", "ios_deployment_target", "ios_enable_code_signing",
      "target_os", "use_xcode_clang", "target_environment">>

MacosKeys == <<"target_os", "use_xcode_clang">>

AndroidKeys == <<"target_os">>

\* C14: in a build, the flag list of the i-th gn gen command holds is_debug
\* once, with 'true' for a debug build and 'false' otherwise, and target_cpu
\* once, with the architecture of the i-th target in double quotes; for a
\* device or simulator target, target_environment holds the variant; no
\* conversion is left unfilled; the keys are those of the common table, then
\* of the platform-family table, then of the platform table, in table order,
\* so the length is the sum of the lengths of these tables.
C14_SubstitutedFlags ==
    IsBuild =>
        \A i \in Calls("gn gen") :
            LET flags == log[i].cmd.gn_args
                ios == Platform(args) = "ios" /\ i <= Len(iosArchs)
                macos == Platform(args) = "ios" /\ i > Len(iosArchs)
            IN  /\ Cardinality(KeyPositions(flags, "is_debug")) = 1
                /\ Has(flags, "is_debug", IF args.debug THEN "true" ELSE "false")
                /\ Cardinality(KeyPositions(flags, "target_cpu")) = 1
                /\ \E k \in 1..Len(flags) : flags[k] = Flag("target_cpu", ArchOfTarget(i), TRUE)
                /\ ios => /\ Cardinality(KeyPositions(flags, "target_environment")) = 1
                          /\ Has(flags, "target_environment", iosArchs[i][1])
                /\ ~ios => KeyPositions(flags, "target_environment") = {}
                /\ \A k \in 1..Len(flags) : flags[k].value # "%s"
                /\ Keys(flags) = IF ios THEN CommonKeys \o AppleKeys \o IosKeys
                                 ELSE IF macos THEN CommonKeys \o AppleKeys \o MacosKeys
                                 ELSE CommonKeys \o AndroidKeys
                /\ Len(flags) = IF ios THEN 5 + 2 + 6 ELSE IF macos THEN 5 + 2 + 2 ELSE 5 + 1

\* a debug build for iOS has generated its four targets
C14_Witness ==
    /\ IsIosBuild
    /\ args.debug
    /\ Cardinality(Calls("gn gen")) = 4
    /\ \A i \in Calls("gn gen") : log[i].res = "ok"
    /\ Has(log[3].cmd.gn_args, "target_environment", "simulator")

\* the directories of the commands of the tool, in the order of the log
LogDirs(tool) ==
    LET cmds == SelectSeq(log, LAMBDA e : e.cmd.tool = tool)
    IN  [i \in 1..Len(cmds) |-> cmds[i].cmd.dir]

\* the architectures the gn gen commands of the log were given, in order
LogCpus ==
    LET cmds == SelectSeq(log, LAMBDA e : e.cmd.tool = "gn gen")
    IN  [i \in 1..Len(cmds) |-> cmds[i].cmd.cpu]

IsPrefix(s, t) == Len(s) <= Len(t) /\ s = SubSeq(t, 1, Len(s))

\* the output directories of the planned targets
PlannedDirs ==
    LET type == IF args.debug THEN "Debug" ELSE "Release"
    IN  IF Platform(args) = "android"
        THEN <<"out/" \o type \o "-arm", "out/" \o type \o "-arm64",
               "out/" \o type \o "-x86", "out/" \o type \o "-x64">>
        ELSE <<"out/" \o type \o "-ios-device-arm64", "out/" \o type \o "-ios-simulator-arm64",
               "out/" \o type \o "-ios-simulator-x64", "out/" \o type \o "-macos-x64">>

\* the architectures of the planned targets
PlannedCpus ==
    IF Platform(args) = "android" THEN <<"arm", "arm64", "x86", "x64">>
                                  ELSE <<"arm64", "arm64", "x64", "x64">>

\* the compile phase is over
CompileOver ==
    \/ \E i \in 1..Len(log) : log[i].cmd.tool \in PackagingTools
    \/ Completed

\* C15: in a build, the gn gen commands issued so far name a prefix of the
\* planned target list (android: arm, arm64, x86, x64; ios: device:arm64,
\* simulator:arm64, simulator:x64, then macOS x64) and so do the ninja
\* commands: a target gets at most one command of each tool, in the planned
\* order. A ninja command is issued only when every target was generated,
\* and once the compile phase is over, which is the case in every run whose
\* commands all succeed, every planned target got exactly one gn gen and
\* one ninja command.
C15_TargetMatrix ==
    IsBuild =>
        /\ IsPrefix(LogDirs("gn gen"), PlannedDirs)
        /\ IsPrefix(LogCpus, PlannedCpus)
        /\ IsPrefix(LogDirs("ninja"), PlannedDirs)
        /\ Calls("ninja") # {} => LogDirs("gn gen") = PlannedDirs
        /\ CompileOver =>
              /\ LogDirs("gn gen") = PlannedDirs
              /\ LogCpus = PlannedCpus
              /\ LogDirs("ninja") = PlannedDirs

\* an iOS build in which every command succeeded has completed
C15_Witness ==
    /\ IsIosBuild
    /\ Completed
    /\ \A i \in 1..Len(log) : log[i].res = "ok"
    /\ Len(LogDirs("ninja")) = 4

\* the binaries the bitcode_strip commands of the log write, in order
Stripped ==
    LET cmds == SelectSeq(log, LAMBDA e : e.cmd.tool = "bitcode_strip")
    IN  [i \in 1..Len(cmds) |-> cmds[i].cmd.output]

\* the binaries of the mobile frameworks of the effective list: the device
\* target, then the first simulator target
MobileBinaries ==
    LET type == IF args.debug THEN "Debug" ELSE "Release"
    IN  << <<"out/" \o type \o "-ios-device-arm64", "WebRTC.framework">>,
           <<"out/" \o type \o "-ios-simulator-arm64", "WebRTC.framework">> >>

\* C16: in an iOS build, every bitcode_strip command reads the binary it
\* writes; the binaries stripped so far are a prefix of the mobile
\* framework binaries of the effective list (the non-simulator target, then
\* the canonical simulator target), each at most once, and all of them,
\* each exactly once, when the second xcodebuild command is issued; no
\* command strips a macOS framework or bak-WebRTC.framework, and the
\* set-aside framework keeps its bitcode.
C16_StripScope ==
    IsIosBuild =>
        /\ \A i \in Calls("bitcode_strip") :
              /\ log[i].cmd.inputs = <<log[i].cmd.output>>
              /\ log[i].cmd.output \notin DesktopFrameworks
              /\ log[i].cmd.output[2] # "bak-WebRTC.framework"
        /\ IsPrefix(Stripped, MobileBinaries)
        /\ Cardinality(Calls("xcodebuild")) = 2 => Stripped = MobileBinaries
        /\ \A f \in DOMAIN out : f[2] = "bak-WebRTC.framework" => out[f].bitcode

\* an iOS build has completed after it stripped both mobile binaries
C16_Witness ==
    /\ IsIosBuild
    /\ Completed
    /\ Len(Stripped) = 2
    /\ \A i \in Calls("bitcode_strip") : log[i].res = "ok"
    /\ BakFrameworkPath(args.debug, iosArchs) \in DOMAIN out

\* the positions of the entry in a PATH
At(path, entry) == {k \in 1..Len(path) : path[k] = entry}

\* the directories build() derives from the target directory
ToolchainDir == "/" \o args.dir \o "/build_webrtc/depot_tools"

SdkDirs ==
    LET src == "/" \o args.dir \o "/build_webrtc/webrtc/android/src"
    IN  <<src \o "/third_party/android_sdk/public/platform-tools",
          src \o "/third_party/android_sdk/public/tools",
          src \o "/build/android">>

\* the commands of the generate and compile phases
GenerateAndCompile == Calls("gn gen") \cup Calls("ninja")

\* C17 (as claimed): in a build, the PATH of every gn gen and ninja command
\* holds the toolchain directory before every entry of the base PATH; for
\* android the three SDK and build directories are before the base entries
\* as well, and for ios nothing but the toolchain directory is added.
C17_ToolchainPrepended ==
    IsBuild =>
        \A i \in GenerateAndCompile :
            LET path == log[i].cmd.path
            IN  /\ \A b \in SeqToSet(BasePath) :
                      \E k \in At(path, ToolchainDir) : \A j \in At(path, b) : k < j
                /\ Platform(args) = "android" =>
                      \A d \in SeqToSet(SdkDirs), b \in SeqToSet(BasePath) :
                          \E k \in At(path, d) : \A j \in At(path, b) : k < j
                /\ Platform(args) = "ios" => Len(path) = Len(BasePath) + 1

\* C17 (amended): in a build, the PATH of every gn gen and ninja command is
\* the base PATH followed by the toolchain directory, which so comes after
\* every base entry; for android the SDK platform-tools, the SDK tools and
\* the build/android directories follow it, in this order, and for ios
\* nothing follows it.
C17_ToolchainAppended ==
    IsBuild =>
        \A i \in GenerateAndCompile :
            LET path == log[i].cmd.path
            IN  /\ IsPrefix(BasePath, path)
                /\ Len(path) > Len(BasePath)
                /\ path[Len(BasePath) + 1] = ToolchainDir
                /\ \A b \in SeqToSet(BasePath) :
                      \E k \in At(path, ToolchainDir) : \A j \in At(path, b) : j < k
                /\ SubSeq(path, Len(BasePath) + 2, Len(path)) =
                      IF Platform(args) = "android" THEN SdkDirs ELSE <<>>

\* an Android build has run its gn gen and ninja commands
C17_Witness ==
    /\ IsAndroidBuild
    /\ Cardinality(Calls("gn gen")) = 4
    /\ Cardinality(Calls("ninja")) = 4
    /\ \A i \in GenerateAndCompile : log[i].res = "ok"

\* the staging tree is complete: jar was called on it
StagingDone == Calls("jar") # {}

\* the architecture whose library an ABI directory is to hold
ArchOfAbi ==
    [abi \in {"armeabi-v7a", "arm64-v8a", "x86", "x86_64"} |->
        CASE abi = "armeabi-v7a" -> "arm"
          [] abi = "arm64-v8a" -> "arm64"
          [] abi = "x86" -> "x86"
          [] abi = "x86_64" -> "x64"]

\* C18: ANDROID_CPU_ABI_MAP has an entry for every architecture of
\* ANDROID_BUILD_CPUS and gives different architectures different ABI
\* names; and in an Android build, the staging tree that jar is called on,
\* and the archive jar makes of it, hold one directory for each of the four
\* ABI names, each with the native library of its own architecture.
C18_AbiStaging ==
    /\ \A i \in 1..Len(ANDROID_BUILD_CPUS) : ANDROID_BUILD_CPUS[i] \in DOMAIN ANDROID_CPU_ABI_MAP
    /\ \A i, j \in 1..Len(ANDROID_BUILD_CPUS) :
          i # j => ANDROID_CPU_ABI_MAP[ANDROID_BUILD_CPUS[i]]
                      # ANDROID_CPU_ABI_MAP[ANDROID_BUILD_CPUS[j]]
    /\ (IsAndroidBuild /\ StagingDone) =>
          \A n \in {"lib", "libjingle_peerconnection.so.jar"} \cap DOMAIN bdir :
              /\ Cardinality(bdir[n].items) = 4
              /\ {m[1] : m \in bdir[n].items} = {<<"lib", abi>> : abi \in DOMAIN ArchOfAbi}
              /\ \A m \in bdir[n].items :
                    /\ m[2].kind = "so"
                    /\ m[2].slices = {ArchOfAbi[m[1][2]]}

\* jar is running on the complete staging tree of an Android build
C18_Witness ==
    /\ IsAndroidBuild
    /\ pc = "rm_lib"
    /\ "lib" \in DOMAIN bdir
    /\ Cardinality(bdir["lib"].items) = 4
    /\ running # {}

\* the invocation was ended by a command of the generate or compile phase
\* that returned a non-zero status
AbortedEarly ==
    /\ pc = "exit"
    /\ exitKind = "tool"
    /\ Len(log) > 0
    /\ log[Len(log)].res = "fail"
    /\ log[Len(log)].cmd.tool \in {"gn gen", "ninja"}

\* C19: while a build is in its generate or compile phase, and when a
\* command of one of these phases has ended the build with its non-zero
\* status, the build directory is as it was when the invocation started
\* (it exists or not as before and holds the same entries), no command of
\* the assemble phase was issued, and the source tree and the toolchain
\* directory are in place.
C19_ArtefactsSurvive ==
    (IsBuild /\ (pc \in {"gn", "ninja", "package"} \/ AbortedEarly)) =>
        /\ BuildDirUntouched
        /\ \A i \in 1..Len(log) : log[i].cmd.tool \in {"gn gen", "ninja"}
        /\ srcDir /\ webrtcDir /\ depotTools

\* a build whose build directory held earlier artefacts was ended by a
\* failing ninja command after gn gen had written to 'out'
C19_Witness ==
    /\ IsBuild
    /\ AbortedEarly
    /\ log[Len(log)].cmd.tool = "ninja"
    /\ start.bdirExists
    /\ DOMAIN bdir # {}
    /\ out # EmptyMap

\* the directory of the first simulator entry and of the other one
CanonicalDir == "out/" \o (IF args.debug THEN "Debug" ELSE "Release") \o "-ios-simulator-arm64"

OtherSimulatorDir == "out/" \o (IF args.debug THEN "Debug" ELSE "Release") \o "-ios-simulator-x64"

\* lipo was called and the swap of lines 244-245 is still to come
BeforeSwap == Calls("lipo") # {} /\ pc = "swap"

\* the swap of lines 244-245 was made
AfterSwap == Calls("xcodebuild") # {}

\* C20: in an iOS build, lipo writes into fat-WebRTC.framework of the
\* canonical simulator directory and reads the WebRTC.framework of every
\* simulator directory, so its output is none of its inputs; until the
\* swap, no framework is set aside, no xcodebuild command was issued, and
\* every input that exists is the single-architecture binary ninja made for
\* its target; once the first xcodebuild command is issued, the canonical
\* directory holds WebRTC.framework (with the slices of both simulators
\* when lipo returned 0), bak-WebRTC.framework with the one slice of the
\* original, and no fat-WebRTC.framework.
C20_FatMergeSwap ==
    IsIosBuild =>
        /\ \A i \in Calls("lipo") :
              /\ log[i].cmd.output = <<CanonicalDir, "fat-WebRTC.framework">>
              /\ log[i].cmd.inputs = << <<CanonicalDir, "WebRTC.framework">>,
                                        <<OtherSimulatorDir, "WebRTC.framework">> >>
              /\ \A k \in 1..Len(log[i].cmd.inputs) : log[i].cmd.inputs[k] # log[i].cmd.output
        /\ BeforeSwap =>
              /\ Calls("xcodebuild") = {}
              /\ <<CanonicalDir, "fat-WebRTC.framework">> \in DOMAIN out
              /\ <<CanonicalDir, "bak-WebRTC.framework">> \notin DOMAIN out
              /\ <<CanonicalDir, "WebRTC.framework">> \in DOMAIN out
              /\ out[<<CanonicalDir, "WebRTC.framework">>].slices = {"arm64"}
              /\ <<OtherSimulatorDir, "WebRTC.framework">> \in DOMAIN out =>
                    out[<<OtherSimulatorDir, "WebRTC.framework">>].slices = {"x64"}
        /\ AfterSwap =>
              /\ <<CanonicalDir, "WebRTC.framework">> \in DOMAIN out
              /\ <<CanonicalDir, "bak-WebRTC.framework">> \in DOMAIN out
              /\ <<CanonicalDir, "fat-WebRTC.framework">> \notin DOMAIN out
              /\ out[<<CanonicalDir, "bak-WebRTC.framework">>].slices = {"arm64"}
              /\ out[<<CanonicalDir, "bak-WebRTC.framework">>].bitcode
              /\ (\E i \in Calls("lipo") : log[i].res = "ok") =>
                    out[<<CanonicalDir, "WebRTC.framework">>].slices = {"arm64", "x64"}

\* the first xcodebuild command of an iOS build is running on the swapped
\* frameworks after lipo returned 0
C20_Witness ==
    /\ IsIosBuild
    /\ pc = "tar_bitcode"
    /\ Cardinality(Calls("xcodebuild")) = 1
    /\ \E i \in Calls("lipo") : log[i].res = "ok"
    /\ <<CanonicalDir, "bak-WebRTC.framework">> \in DOMAIN out
    /\ out[<<CanonicalDir, "WebRTC.framework">>].slices = {"arm64", "x64"}

====
